---- MODULE Spec2Model ----
(***************************************************************************)
(* Model of run_codenarc.py: the wrapper that calls CodeNarc, validates    *)
(* the run, parses the XML report and prints the violations.               *)
(*                                                                         *)
(* Python values are modelled as tagged records:                           *)
(*   a dict  is [kind |-> "dict", ...its keys...],                         *)
(*   a list  is [kind |-> "list", items |-> <<...>>],                      *)
(*   a str reached by iteration over a dict is [kind |-> "str", s |-> ..], *)
(*   a key that the dict does not have is [kind |-> "absent"].             *)
(* An XML report is modelled as its element tree:                          *)
(*   [totalFiles |-> str, packages |-> << [path |-> str,                   *)
(*       files |-> << [name |-> str, violations |-> << [ruleName, *)
(*       lineNumber, Message] >>] >>] >>].                                 *)
(***************************************************************************)
EXTENDS Integers, Sequences, FiniteSets, TLC

VARIABLES
    pc,           \* position in the __main__ expression
    environ,      \* os.environ: the three *_VERSION variables
    argv,         \* the three version options of sys.argv
    parsed_args,  \* result of parse_args
    disk,         \* the report file on disk
    proc,         \* what the external process did in this run
    xml_text,     \* value returned by run_codenarc
    stdout,       \* lines this script has printed
    retval,       \* value returned by parse_xml_report
    exception,    \* message of the exception raised, "none" if none
    status        \* exit status the calling process receives, -1 while running

vars == <<pc, environ, argv, parsed_args, disk, proc, xml_text, stdout, retval,
          exception, status>>

(***************************************************************************)
(* Bounds of the model.                                                    *)
(***************************************************************************)
\* Package + File + Violation elements of a report read by the printer
MaxNodes == 6
\* Package + File + Violation elements of a report written by the process
MaxProcNodes == 3

\* sys.exit hands the status to exit(), which keeps its low 8 bits
ExitStatusRange == 256

(***************************************************************************)
(* Generic helpers.                                                        *)
(***************************************************************************)
NONE == "none"

\* Python's `needle in hay` for two str values
Contains(hay, needle) ==
    \E i \in 1..(Len(hay) - Len(needle) + 1) :
        SubSeq(hay, i, i + Len(needle) - 1) = needle

IsPrefix(s, t) == Len(s) <= Len(t) /\ SubSeq(t, 1, Len(s)) = s

\* Result of a printing function: the exception it raised (or "none"), the
\* count it returned and the lines it printed before returning or raising.
Ok(n, out) == [err |-> NONE, n |-> n, out |-> out]
Raise(e) == [err |-> e, n |-> 0, out |-> <<>>]

\* Statement a followed by statement b, with num_violations += ...
Then(a, b) ==
    IF a.err # NONE THEN a
    ELSE [err |-> b.err, n |-> a.n + b.n, out |-> a.out \o b.out]

Absent == [kind |-> "absent"]
PyList(items) == [kind |-> "list", items |-> items]
PyStr(s) == [kind |-> "str", s |-> s]

(***************************************************************************)
(* xmltodict.parse: repeated children become a list, a single child is     *)
(* delivered bare, and no child leaves the key out of the dict.            *)
(***************************************************************************)
Collapse(children) ==
    IF Len(children) = 0 THEN Absent
    ELSE IF Len(children) = 1 THEN children[1]
    ELSE PyList(children)

ViolationDict(v) ==
    [kind |-> "dict", ruleName |-> v.ruleName, lineNumber |-> v.lineNumber,
     Message |-> v.Message]

FileDict(f) ==
    [kind |-> "dict", name |-> f.name,
     Violation |-> Collapse([i \in 1..Len(f.violations) |->
                                ViolationDict(f.violations[i])])]

PackageDict(p) ==
    [kind |-> "dict", path |-> p.path,
     File |-> Collapse([i \in 1..Len(p.files) |-> FileDict(p.files[i])])]

xmltodict_parse(text) ==
    [PackageSummary |-> [totalFiles |-> text.totalFiles],
     Package |-> Collapse([i \in 1..Len(text.packages) |->
                              PackageDict(text.packages[i])])]

(***************************************************************************)
(* The report printer.                                                     *)
(***************************************************************************)
\* Iterating a dict yields its keys
DictKeys(element) ==
    IF "ruleName" \in DOMAIN element
    THEN <<PyStr("@ruleName"), PyStr("@lineNumber"), PyStr("Message")>>
    ELSE IF "name" \in DOMAIN element
    THEN <<PyStr("@name")>>
         \o (IF element.Violation.kind = "absent" THEN <<>> ELSE <<PyStr("Violation")>>)
    ELSE <<PyStr("@path")>>
         \o (IF element.File.kind = "absent" THEN <<>> ELSE <<PyStr("File")>>)

\* Mutant: the element is handed on as it is, so a bare dict is iterated
\* key by key.
_safe_list_wrapper_unwrapped(element) ==
    IF element.kind = "list" THEN element.items ELSE DictKeys(element)

_safe_list_wrapper(element) ==
    IF element.kind = "list" THEN element.items ELSE <<element>>

violation_line(package_file_path, violation) ==
    package_file_path \o ":" \o violation.lineNumber \o ": "
        \o violation.ruleName \o ": " \o violation.Message

\* The loop of _print_violations: one line per element, up to the first
\* element that cannot be subscripted by a key (a str)
print_each_violation(package_file_path, violations) ==
    LET bad == {i \in 1..Len(violations) : violations[i].kind # "dict"}
        stop == IF bad = {} THEN Len(violations) + 1
                ELSE CHOOSE i \in bad : \A j \in bad : i <= j
    IN  [err |-> IF bad = {} THEN NONE ELSE "TypeError",
         n |-> 0,
         out |-> [i \in 1..(stop - 1) |->
                     violation_line(package_file_path, violations[i])]]

_print_violations(package_file_path, violations) ==
    Then(print_each_violation(package_file_path, violations),
         Ok(Len(violations), <<>>))

RECURSIVE _print_violations_in_files(_, _)
_print_violations_in_files(package_path, files) ==
    IF Len(files) = 0 THEN Ok(0, <<>>)
    ELSE LET package_file == Head(files) IN
         Then(IF package_file.kind # "dict" THEN Raise("TypeError")
              ELSE IF package_file.Violation.kind = "absent" THEN Raise("KeyError")
              ELSE _print_violations(
                       package_path \o "/" \o package_file.name,
                       _safe_list_wrapper(package_file.Violation)),
              _print_violations_in_files(package_path, Tail(files)))

\* `'File' in p`: key membership for a dict, substring test for a str
HasFile(p) ==
    IF p.kind = "dict" THEN p.File.kind # "absent" ELSE Contains(p.s, "File")

\* Mutant: the empty path of the top-level package is printed as it is.
normalize_path_kept(package_path) == package_path

normalize_path(package_path) ==
    IF package_path = "" THEN "." ELSE package_path

RECURSIVE _print_violations_in_packages(_)
_print_violations_in_packages(packages) ==
    IF Len(packages) = 0 THEN Ok(0, <<>>)
    ELSE LET package == Head(packages) IN
         Then(IF ~HasFile(package) THEN Ok(0, <<>>)
              ELSE IF package.kind # "dict" THEN Raise("TypeError")
              ELSE _print_violations_in_files(
                       normalize_path(package.path),
                       _safe_list_wrapper(package.File)),
              _print_violations_in_packages(Tail(packages)))

\* The listing printed after the summary line
second_listing(xml_doc) ==
    _print_violations_in_packages(_safe_list_wrapper(xml_doc.Package))

\* parse_xml_report on an already parsed document: [err, n, out] where n is
\* the returned value
report_outcome(xml_doc) ==
    IF xml_doc.Package.kind = "absent" THEN Raise("KeyError")
    ELSE LET first == _print_violations_in_packages(
                          _safe_list_wrapper(xml_doc.Package))
             scanned == "Scanned " \o xml_doc.PackageSummary.totalFiles \o " files"
         IN  IF first.err # NONE THEN first
             ELSE IF first.n = 0
             THEN Ok(0, first.out \o <<scanned, "No violations found">>)
             ELSE LET found == "Found " \o ToString(first.n) \o " violation(s):"
                      again == second_listing(xml_doc)
                  IN  [err |-> again.err, n |-> first.n,
                       out |-> first.out \o <<scanned, found>> \o again.out]

parse_xml_report(text) == report_outcome(xmltodict_parse(text))

(***************************************************************************)
(* Argument parsing.                                                       *)
(***************************************************************************)
PyNone == "<None>"
VersionNames == {"codenarc_version", "gmetrics_version", "slf4j_version"}

\* Python's `not value` for a value that is None or a str
Falsy(value) == value = PyNone \/ value = ""

\* argparse: the command-line value, or the default taken from os.environ
option_value(cli, env, name) ==
    IF cli[name] # PyNone THEN cli[name] ELSE env[name]

\* Mutant: the SLF4J version is not validated.
validate_versions_no_slf4j(args) ==
    IF Falsy(args.codenarc_version) THEN "Could not determine CodeNarc version"
    ELSE IF Falsy(args.gmetrics_version) THEN "Could not determine GMetrics version"
    ELSE NONE

validate_versions(args) ==
    IF Falsy(args.codenarc_version) THEN "Could not determine CodeNarc version"
    ELSE IF Falsy(args.gmetrics_version) THEN "Could not determine GMetrics version"
    ELSE IF Falsy(args.slf4j_version) THEN "Could not determine SLF4J version"
    ELSE NONE

NoArgs == [n \in VersionNames |-> PyNone]

ParseArgs ==
    /\ pc = "parse_args"
    /\ LET args == [n \in VersionNames |-> option_value(argv, environ, n)]
           error == validate_versions(args)
       IN  IF error # NONE
           THEN /\ exception' = error
                /\ pc' = "raised"
                /\ UNCHANGED parsed_args
           ELSE /\ parsed_args' = args
                /\ pc' = "run_codenarc"
                /\ UNCHANGED exception
    /\ UNCHANGED <<environ, argv, disk, proc, xml_text, stdout, retval, status>>

(***************************************************************************)
(* The invoker.                                                            *)
(***************************************************************************)
NoFile == [exists |-> FALSE]
ReportFile(text) == [exists |-> TRUE, text |-> text]
NoText == [returned |-> FALSE]
NotSpawned == [spawned |-> FALSE]

\* Mutant: the file is left where it is.
_remove_report_file_kept(report_file) == report_file

_remove_report_file(report_file) ==
    IF report_file.exists THEN NoFile ELSE report_file

CompilationMarker == "Compilation failed"
DEFAULT_REPORT_FILE == "codenarc-report.xml"

\* Mutant: the return code is looked at before the captured output.
run_outcome_code_first(output_stdout, returncode, report_file) ==
    IF returncode # 0
    THEN "CodeNarc failed with return code " \o ToString(returncode)
    ELSE IF Contains(output_stdout, CompilationMarker)
    THEN "Error when compiling files!"
    ELSE IF ~report_file.exists
    THEN DEFAULT_REPORT_FILE \o " was not generated, aborting!"
    ELSE NONE

\* The checks of run_codenarc after the process returned: the message of the
\* ValueError raised, "none" when the report is read and returned
run_outcome(output_stdout, returncode, report_file) ==
    IF Contains(output_stdout, CompilationMarker)
    THEN "Error when compiling files!"
    ELSE IF returncode # 0
    THEN "CodeNarc failed with return code " \o ToString(returncode)
    ELSE IF ~report_file.exists
    THEN DEFAULT_REPORT_FILE \o " was not generated, aborting!"
    ELSE NONE

(***************************************************************************)
(* Inputs.                                                                 *)
(***************************************************************************)
RECURSIVE Sum(_)
Sum(counts) == IF Len(counts) = 0 THEN 0 ELSE Head(counts) + Sum(Tail(counts))

\* Sequences of per-file violation counts that use at most n elements
RECURSIVE CountSeqs(_)
CountSeqs(n) ==
    IF n <= 0 THEN {<<>>}
    ELSE {<<>>} \cup UNION {{<<k>> \o s : s \in CountSeqs(n - 1 - k)} : k \in 0..(n - 1)}

\* Sequences of packages that use at most n elements
RECURSIVE PackageShapes(_)
PackageShapes(n) ==
    IF n <= 0 THEN {<<>>}
    ELSE {<<>>} \cup UNION {
             {<<[root |-> r, counts |-> f]>> \o s :
                  r \in BOOLEAN, s \in PackageShapes(n - 1 - Len(f) - Sum(f))} :
             f \in CountSeqs(n - 1)}

MakeViolation(j) ==
    [ruleName |-> "Rule" \o ToString(j), lineNumber |-> ToString(10 * j),
     Message |-> "message " \o ToString(j)]

MakeFile(i, count) ==
    [name |-> "File" \o ToString(i) \o ".groovy",
     violations |-> [j \in 1..count |-> MakeViolation(j)]]

MakePackage(k, shape) ==
    [path |-> IF shape.root THEN "" ELSE "src/pkg" \o ToString(k),
     files |-> [i \in 1..Len(shape.counts) |-> MakeFile(i, shape.counts[i])]]

NumFiles(shapes) ==
    Sum([k \in 1..Len(shapes) |-> Len(shapes[k].counts)])

MakeReport(shapes) ==
    [totalFiles |-> ToString(NumFiles(shapes)),
     packages |-> [k \in 1..Len(shapes) |-> MakePackage(k, shapes[k])]]

Reports(n) == {MakeReport(shapes) : shapes \in PackageShapes(n)}

\* A single-file report whose violation count reaches the range of an exit status
LargeReports ==
    {[totalFiles |-> "1",
      packages |-> <<[path |-> "", files |-> <<MakeFile(1, n)>>]>>] :
         n \in {ExitStatusRange}}

PrinterReports == Reports(MaxNodes) \cup LargeReports

\* What the external process may write to the report path
ProcessReports == Reports(MaxProcNodes)

\* A report left at the report path before this run started
StaleReport == MakeReport(<<[root |-> FALSE, counts |-> <<2>>]>>)

ProcessOutputs ==
    {"", "CodeNarc completed: (p1=0; p2=0; p3=0)",
     "Compilation failed for [Broken.groovy]"}

ReturnCodes == {0, 1, -9}

\* What the external process does to the file at the report path
ProcessEffects ==
    {[op |-> "none"], [op |-> "delete"]}
        \cup {[op |-> "write", text |-> t] : t \in ProcessReports}

ValidArgs == [n \in VersionNames |-> "1.0"]

(***************************************************************************)
(* run_codenarc: spawn the process, echo its output, check the run, read   *)
(* and remove the report.                                                  *)
(***************************************************************************)
RunCodenarc ==
    /\ pc = "run_codenarc"
    /\ \E output_stdout \in ProcessOutputs, returncode \in ReturnCodes,
          effect \in ProcessEffects :
          LET after == IF effect.op = "write" THEN ReportFile(effect.text)
                       ELSE IF effect.op = "delete" THEN NoFile
                       ELSE disk
              error == run_outcome(output_stdout, returncode, after)
          IN  /\ proc' = [spawned |-> TRUE, before |-> disk,
                          stdout |-> output_stdout, returncode |-> returncode,
                          op |-> effect.op, report |-> after]
              /\ stdout' = stdout \o <<output_stdout>>
              /\ disk' = _remove_report_file(after)
              /\ IF error # NONE
                 THEN /\ exception' = error
                      /\ pc' = "raised"
                      /\ UNCHANGED xml_text
                 ELSE /\ xml_text' = [returned |-> TRUE, text |-> after.text]
                      /\ pc' = "parse_xml_report"
                      /\ UNCHANGED exception
    /\ UNCHANGED <<environ, argv, parsed_args, retval, status>>

(***************************************************************************)
(* parse_xml_report applied to the text run_codenarc returned.             *)
(***************************************************************************)
ParseXmlReport ==
    /\ pc = "parse_xml_report"
    /\ LET result == parse_xml_report(xml_text.text)
       IN  /\ stdout' = stdout \o result.out
           /\ IF result.err # NONE
              THEN /\ exception' = result.err
                   /\ pc' = "raised"
                   /\ UNCHANGED retval
              ELSE /\ retval' = result.n
                   /\ pc' = "sys_exit"
                   /\ UNCHANGED exception
    /\ UNCHANGED <<environ, argv, parsed_args, disk, proc, xml_text, status>>

\* sys.exit(n): the calling process receives the low bits of n
SysExit ==
    /\ pc = "sys_exit"
    /\ status' = retval % ExitStatusRange
    /\ pc' = "exited"
    /\ UNCHANGED <<environ, argv, parsed_args, disk, proc, xml_text, stdout,
                   retval, exception>>

\* An exception nobody catches ends the interpreter with status 1
UncaughtException ==
    /\ pc = "raised"
    /\ status' = 1
    /\ pc' = "exited"
    /\ UNCHANGED <<environ, argv, parsed_args, disk, proc, xml_text, stdout,
                   retval, exception>>

(***************************************************************************)
(* Specifications.                                                         *)
(***************************************************************************)
\* The whole script, from the command line on
Init ==
    /\ pc = "parse_args"
    /\ environ \in [VersionNames -> {PyNone, "2.0"}]
    /\ argv \in [VersionNames -> {PyNone, "1.0"}]
    /\ parsed_args = NoArgs
    /\ disk \in {NoFile, ReportFile(StaleReport)}
    /\ proc = NotSpawned
    /\ xml_text = NoText
    /\ stdout = <<>>
    /\ retval = -1
    /\ exception = NONE
    /\ status = -1

Next == ParseArgs \/ RunCodenarc \/ ParseXmlReport \/ SysExit \/ UncaughtException

Spec == Init /\ [][Next]_vars

\* The report printer alone, applied to every report within the bounds
InitPrinter ==
    /\ pc = "parse_xml_report"
    /\ environ = NoArgs
    /\ argv = ValidArgs
    /\ parsed_args = ValidArgs
    /\ disk = NoFile
    /\ xml_text \in {[returned |-> TRUE, text |-> r] : r \in PrinterReports}
    /\ proc = [spawned |-> TRUE, before |-> NoFile, stdout |-> "",
               returncode |-> 0, op |-> "write",
               report |-> ReportFile(xml_text.text)]
    /\ stdout = <<>>
    /\ retval = -1
    /\ exception = NONE
    /\ status = -1

NextPrinter == ParseXmlReport \/ SysExit \/ UncaughtException

SpecPrinter == InitPrinter /\ [][NextPrinter]_vars

(***************************************************************************)
(* Vocabulary of the claims, read off the report's element tree.           *)
(***************************************************************************)
PrinterDone == pc \in {"sys_exit", "raised", "exited"}

Report == xml_text.text

\* Number of Violation elements of the files before file f of package p
ViolationsBeforeFile(r, p, f) ==
    Sum([i \in 1..(f - 1) |-> Len(r.packages[p].files[i].violations)])

ViolationsInPackage(r, p) ==
    ViolationsBeforeFile(r, p, Len(r.packages[p].files) + 1)

ViolationsBeforePackage(r, p) ==
    Sum([k \in 1..(p - 1) |-> ViolationsInPackage(r, k)])

\* N: the number of Violation elements of the report
NumViolations(r) == ViolationsBeforePackage(r, Len(r.packages) + 1)

\* The Violation elements, each named by its package, file and own index
Positions(r) ==
    UNION {UNION {{<<p, f, v>> : v \in 1..Len(r.packages[p].files[f].violations)} :
                     f \in 1..Len(r.packages[p].files)} :
              p \in 1..Len(r.packages)}

\* Place of a Violation element in document order
DocumentIndex(r, t) ==
    ViolationsBeforePackage(r, t[1]) + ViolationsBeforeFile(r, t[1], t[2]) + t[3]

\* '<package>/<file>:<line>: <ruleName>: <message>', '.' for the empty path
ExpectedLine(r, t) ==
    LET package == r.packages[t[1]]
        file == package.files[t[2]]
        violation == file.violations[t[3]]
    IN  (IF package.path = "" THEN "." ELSE package.path) \o "/" \o file.name
            \o ":" \o violation.lineNumber \o ": " \o violation.ruleName
            \o ": " \o violation.Message

ExpectedListing(r) ==
    [i \in 1..NumViolations(r) |->
        ExpectedLine(r, CHOOSE t \in Positions(r) : DocumentIndex(r, t) = i)]

\* Number of printed lines that are the line of some violation of the report
NumViolationLines(lines, r) ==
    LET texts == {ExpectedLine(r, t) : t \in Positions(r)}
    IN  Cardinality({i \in 1..Len(lines) : lines[i] \in texts})

\* The same document with every collection delivered as a list (what
\* xmltodict yields under force_list); an empty collection is still absent.
ForceList(children) ==
    IF Len(children) = 0 THEN Absent ELSE PyList(children)

FileDictL(f) ==
    [kind |-> "dict", name |-> f.name,
     Violation |-> ForceList([i \in 1..Len(f.violations) |->
                                 ViolationDict(f.violations[i])])]

PackageDictL(p) ==
    [kind |-> "dict", path |-> p.path,
     File |-> ForceList([i \in 1..Len(p.files) |-> FileDictL(p.files[i])])]

xmltodict_parse_lists(text) ==
    [PackageSummary |-> [totalFiles |-> text.totalFiles],
     Package |-> ForceList([i \in 1..Len(text.packages) |->
                               PackageDictL(text.packages[i])])]

(***************************************************************************)
(* Claims about the report printer, checked under SpecPrinter.             *)
(***************************************************************************)
\* C1: for every report with N violations, parse_xml_report returns exactly N.
C1_ReturnsViolationCount ==
    PrinterDone => exception = NONE /\ retval = NumViolations(Report)

\* C2: one call of parse_xml_report that returns prints exactly N violation
\* lines in total, none of them more than once.
C2_PrintsEachViolationOnce ==
    (PrinterDone /\ exception = NONE) =>
        NumViolationLines(stdout, Report) = NumViolations(Report)

\* C5: a run that parsed its report exits with status N, the violation count;
\* with at least one violation the status is never 0.
C5_ExitStatusIsViolationCount ==
    (pc = "exited" /\ exception = NONE) =>
        /\ status = NumViolations(Report)
        /\ (NumViolations(Report) >= 1 => status # 0)

\* C6: for a report with zero violations, whatever its packages and files,
\* parse_xml_report finishes without error, returns 0 and prints the
\* no-violations message.
C6_NoViolationsSucceeds ==
    (PrinterDone /\ NumViolations(Report) = 0) =>
        /\ exception = NONE
        /\ retval = 0
        /\ Len(stdout) > 0
        /\ stdout[Len(stdout)] = "No violations found"

\* C7: the printed lines, the returned count and the exception, if any, are
\* those the printer gives when every collection of the same report is
\* delivered as a list, a collection of one element included.
C7_BareElementSameAsList ==
    PrinterDone =>
        LET lists == report_outcome(xmltodict_parse_lists(Report))
        IN  /\ stdout = lists.out
            /\ exception = lists.err
            /\ (lists.err = NONE => retval = lists.n)

C7_Witness ==
    /\ PrinterDone
    /\ exception = NONE
    /\ retval = 1
    /\ Len(Report.packages) = 1
    /\ Len(Report.packages[1].files) = 1
    /\ Len(Report.packages[1].files[1].violations) = 1
    /\ xmltodict_parse(Report).Package.kind = "dict"
    /\ xmltodict_parse(Report).Package.File.kind = "dict"
    /\ xmltodict_parse(Report).Package.File.Violation.kind = "dict"

\* C8: every listing printed is the sequence of the lines
\* '<package>/<file>:<line>: <ruleName>: <message>' of the report's violations
\* in document order, with '.' for the empty package path and no line for a
\* package without File: all of it when the call returns (once before the
\* summary and, when there are violations, once after it), a leading part of
\* it when the call raises.
C8_ListingFormatAndOrder ==
    PrinterDone =>
        LET expected == ExpectedListing(Report)
            n == Len(expected)
        IN  IF exception # NONE THEN IsPrefix(stdout, expected)
            ELSE /\ IsPrefix(expected, stdout)
                 /\ Len(stdout) = IF n = 0 THEN 2 ELSE 2 * n + 2
                 /\ SubSeq(stdout, Len(stdout) - n + 1, Len(stdout)) = expected

C8_Witness ==
    /\ PrinterDone
    /\ exception = NONE
    /\ retval >= 2
    /\ \E p \in 1..Len(Report.packages) :
          Report.packages[p].path = "" /\ Len(Report.packages[p].files) >= 2
    /\ \E p \in 1..Len(Report.packages) : Len(Report.packages[p].files) = 0
    /\ stdout[1] = "./File1.groovy:10: Rule1: message 1"

(***************************************************************************)
(* Claims about the invoker and the command line, checked under Spec.      *)
(***************************************************************************)
RunErrors ==
    {"Error when compiling files!",
     "codenarc-report.xml was not generated, aborting!"}
        \cup {"CodeNarc failed with return code " \o ToString(c) : c \in ReturnCodes}

\* C3: once the process has returned, the outcome of run_codenarc is fixed by
\* the first of: marker in the output -> compilation error; exit code # 0 ->
\* tool failure naming the code; report absent -> missing report; else the
\* text of the report file is returned.
C3_OutcomeOrder ==
    proc.spawned =>
        IF Contains(proc.stdout, "Compilation failed")
        THEN exception = "Error when compiling files!" /\ ~xml_text.returned
        ELSE IF proc.returncode # 0
        THEN /\ exception = "CodeNarc failed with return code "
                                \o ToString(proc.returncode)
             /\ ~xml_text.returned
        ELSE IF ~proc.report.exists
        THEN /\ exception = "codenarc-report.xml was not generated, aborting!"
             /\ ~xml_text.returned
        ELSE /\ xml_text.returned
             /\ xml_text.text = proc.report.text
             /\ exception \notin RunErrors

C3_Witness ==
    /\ proc.spawned
    /\ Contains(proc.stdout, "Compilation failed")
    /\ proc.returncode # 0
    /\ proc.report.exists
    /\ exception = "Error when compiling files!"

\* C4: whenever run_codenarc has finished, by returning or by raising, no
\* file exists at the report path.
C4_NoReportFileLeft ==
    proc.spawned => ~disk.exists

C4_Witness ==
    /\ proc.spawned
    /\ proc.before.exists
    /\ proc.report.exists
    /\ exception = "CodeNarc failed with return code 1"
    /\ ~disk.exists

\* A version with neither a command-line value nor an environment fallback
Missing(name) == argv[name] = PyNone /\ environ[name] = PyNone

\* C9: when a version has neither a command-line value nor an environment
\* fallback, the run fails in parse_args with the error of the first missing
\* one in the order CodeNarc, GMetrics, SLF4J; the process is never spawned
\* and no report is parsed.

C9_MissingVersionFailsFast ==
    (pc # "parse_args" /\ \E name \in VersionNames : Missing(name)) =>
        /\ exception =
              IF Missing("codenarc_version")
              THEN "Could not determine CodeNarc version"
              ELSE IF Missing("gmetrics_version")
              THEN "Could not determine GMetrics version"
              ELSE "Could not determine SLF4J version"
        /\ ~proc.spawned
        /\ ~xml_text.returned
        /\ retval = -1
        /\ stdout = <<>>

C9_Witness ==
    /\ pc = "exited"
    /\ ~Missing("codenarc_version")
    /\ ~Missing("gmetrics_version")
    /\ Missing("slf4j_version")
    /\ exception = "Could not determine SLF4J version"
    /\ status = 1

\* C10: the text run_codenarc returns was written by the external process of
\* this invocation, never a file that was at the report path before.
C10_ReturnedReportIsFresh ==
    xml_text.returned => proc.op = "write"

====
